---------------------------- MODULE Spec2Model ----------------------------
(***************************************************************************)
(* A model of generateImages of src/app/page.tsx: the batch scheduler that *)
(* runs the row tasks of a batch concurrently, saves their results into    *)
(* size-capped archives (zipFiles / zipImageCounts), publishes progress    *)
(* and downloads the archives.                                             *)
(*                                                                         *)
(* A string is a sequence of one-character strings, so that split,         *)
(* replace and padStart are computed character by character.               *)
(***************************************************************************)
EXTENDS Integers, Sequences, FiniteSets, TLC

(***************************************************************************)
(* Program constants and model bounds.                                     *)
(***************************************************************************)
\* const BATCH_SIZE = 4 (page.tsx:267)
BATCH_SIZE == 4

\* const IMAGES_PER_ZIP = 2000 (page.tsx:268), scaled down so that a run of
\* MaxRows rows fills one archive and opens a second one.
IMAGES_PER_ZIP == 4

\* The longest row list a run is given.
MaxRows == 6

\* The width String(fullIndex + 1).padStart(4, "0") pads to (page.tsx:341).
PadWidth == 4

\* A slot of zipFiles holds an archive ("zip", with its entries), is a hole of
\* the sparse array ("undefined") or was cleared on line 364 ("null"). An
\* archive is the set of its entries, each a file name and the row whose blob
\* it holds.
UndefinedSlot == [state |-> "undefined", files |-> {}]
NullSlot == [state |-> "null", files |-> {}]
NewJSZip == [state |-> "zip", files |-> {}]

\* A hole of zipImageCounts.
UndefinedCount == -1

(***************************************************************************)
(* Strings.                                                                *)
(***************************************************************************)
\* The characters the regular expression [a-zA-Z0-9_-] of line 337 accepts.
SafeChars ==
    {"a","b","c","d","e","f","g","h","i","j","k","l","m","n","o","p","q","r",
     "s","t","u","v","w","x","y","z",
     "A","B","C","D","E","F","G","H","I","J","K","L","M","N","O","P","Q","R",
     "S","T","U","V","W","X","Y","Z",
     "0","1","2","3","4","5","6","7","8","9","_","-"}

\* String.prototype.split(sep) for a one-character separator: the pieces
\* between the occurrences of sep, in order (n occurrences give n+1 pieces).
RECURSIVE SplitFrom(_, _, _, _)
SplitFrom(s, sep, k, cur) ==
    IF k > Len(s) THEN <<cur>>
    ELSE IF s[k] = sep THEN <<cur>> \o SplitFrom(s, sep, k + 1, <<>>)
    ELSE SplitFrom(s, sep, k + 1, Append(cur, s[k]))

Split(s, sep) == SplitFrom(s, sep, 1, <<>>)

\* The position of the first occurrence of c in s, 0 when there is none.
RECURSIVE IndexFrom(_, _, _)
IndexFrom(s, c, k) ==
    IF k > Len(s) THEN 0
    ELSE IF s[k] = c THEN k
    ELSE IndexFrom(s, c, k + 1)

IndexOf(s, c) == IndexFrom(s, c, 1)

\* The decoding URLSearchParams applies to a name or a value: "+" is a space.
\* (Percent escapes are decoded too; the links of the model hold no "%".)
FormDecode(s) == [k \in 1..Len(s) |-> IF s[k] = "+" THEN " " ELSE s[k]]

\* new URLSearchParams(query).values(): the query is cut at every "&", empty
\* pieces are dropped, and the value of a piece is what follows its first "="
\* (the empty string when it has none).
ParamValue(piece) ==
    LET eq == IndexOf(piece, "=")
    IN  IF eq = 0 THEN <<>> ELSE FormDecode(SubSeq(piece, eq + 1, Len(piece)))

ParamValues(query) ==
    LET pieces == SelectSeq(Split(query, "&"), LAMBDA p : p # <<>>)
    IN  [k \in 1..Len(pieces) |-> ParamValue(pieces[k])]

\* Sanitize without the flag g of the regular expression: only the first
\* character outside the class is replaced.
SanitizeFirst(s) ==
    LET bad == { k \in 1..Len(s) : s[k] \notin SafeChars }
    IN  IF bad = {} THEN s
        ELSE [s EXCEPT ![CHOOSE k \in bad : \A j \in bad : k <= j] = "_"]

\* lastParam.replace(/[^a-zA-Z0-9_-]/g, "_")
Sanitize(s) == [k \in 1..Len(s) |-> IF s[k] \in SafeChars THEN s[k] ELSE "_"]

\* String(n) for n >= 0, and padStart(width, "0").
DigitChar(d) == <<"0","1","2","3","4","5","6","7","8","9">>[d + 1]

RECURSIVE DecimalString(_)
DecimalString(n) ==
    IF n < 10 THEN <<DigitChar(n)>>
    ELSE Append(DecimalString(n \div 10), DigitChar(n % 10))

RECURSIVE PadStart(_, _, _)
PadStart(s, width, c) == IF Len(s) >= width THEN s ELSE PadStart(<<c>> \o s, width, c)

QrImagePrefix == <<"q","r","_","i","m","a","g","e","_">>

JpgExtension == <<".","j","p","g">>

\* link.split("?")[1]: the piece between the first and the second "?". It is
\* undefined when the link has no "?"; `if (query)` on line 334 treats the
\* undefined and the empty query alike, and so does the empty piece here.
QueryOf(link) ==
    LET pieces == Split(link, "?")
    IN  IF Len(pieces) >= 2 THEN pieces[2] ELSE <<>>

\* The file name of lines 331-342, without its extension.
FileName(link, fullIndex) ==
    LET query == QueryOf(link)
        fromQuery ==
            IF query = <<>> THEN <<>>
            ELSE LET values == ParamValues(query)
                 IN  IF Len(values) = 0 THEN <<>>
                     ELSE Sanitize(values[Len(values)])
    IN  IF fromQuery # <<>> THEN fromQuery
        ELSE QrImagePrefix \o PadStart(DecimalString(fullIndex + 1), PadWidth, "0")

\* The entry name given to zip.file on line 344.
EntryName(link, fullIndex) == FileName(link, fullIndex) \o JpgExtension

(***************************************************************************)
(* The row lists a run is given: every list of at most MaxRows links that  *)
(* repeats a cycle of at most MaxPeriod links of the pool. The pool holds  *)
(* a link without a query string and two different links whose last        *)
(* parameter value sanitizes to the same name.                             *)
(***************************************************************************)
MaxPeriod == 2

LinkPool ==
    { <<"a">>,
      <<"a","?","i","=","/">>,
      <<"b","?","i","=","2","&","j","=","+">> }

Cycles == UNION { [1..p -> LinkPool] : p \in 1..MaxPeriod }

RowLists ==
    { [k \in 1..n |-> c[((k - 1) % Len(c)) + 1]] : n \in 0..MaxRows, c \in Cycles }

(***************************************************************************)
(* State.                                                                  *)
(***************************************************************************)
VARIABLES
    bgImage,         \* useState bgImage: "none" (null) or "image"
    links,           \* useState links: the row list
    isProcessing,    \* useState isProcessing
    progress,        \* useState progress, a percentage kept as <<num, den>>
    lastToast,       \* the title of the last toast shown, "none" before any
    pc,              \* where the run of generateImages is suspended
    i,               \* the batch loop's i, the global index of the batch's first row
    tasks,           \* the row tasks of the current batch, by batch index 0..BATCH_SIZE-1
    zipFiles,        \* the array zipFiles (index z at position z + 1)
    zipImageCounts,  \* the array zipImageCounts (index z at position z + 1)
    z,               \* the flush loop's z while a generateAsync is awaited
    downloads,       \* the archives downloaded by this run, in order: a.download, zipBlob
    published,       \* the values this run passed to setProgress, in order
    saved,           \* the rows of this run whose blob was passed to zip.file
    addOrder         \* those rows in the order of the calls of zip.file

\* The arguments and the result of one call of setDpi, and of one resolution
\* of a file name, for the specifications that apply them on their own.
VARIABLES
    jpegBlob,        \* setDpi's blob: its bytes, and how they were put together
    jpegDpi,         \* setDpi's dpi
    jpegResult,      \* what the promise of setDpi settled with
    nameLink,        \* the link a file name is resolved for
    nameIndex,       \* its row's fullIndex
    nameOut          \* the entry name, <<>> before it is resolved

\* The layout, in tenths of a centimetre (the step of the sliders), the
\* bitmap of the background, and what a run keeps of them.
VARIABLES
    bgDimensions,    \* the state bgDimensions: widthCm, heightCm
    qrConfig,        \* the state qrConfig: qrSizeCm, marginTopCm, marginRightCm
    bgSize,          \* width and height of the bitmap of bgImage, in pixels
    csvParsing,      \* Papa.parse of handleCsvChange has not called back yet
    edits,           \* the number of calls of the change handlers so far
    closure,         \* links, bgDimensions, qrConfig as the running generateImages closes over them
    drawn            \* the geometry of the images this run has made a blob of

configVars == <<bgDimensions, qrConfig, bgSize, csvParsing, edits>>

snapVars == <<closure, drawn>>

runVars == <<bgImage, links, isProcessing, progress, lastToast, pc, i, tasks,
             zipFiles, zipImageCounts, z, downloads, published, saved, addOrder,
             bgDimensions, qrConfig, bgSize, csvParsing, edits, closure, drawn>>

pureVars == <<jpegBlob, jpegDpi, jpegResult, nameLink, nameIndex, nameOut>>

vars == <<bgImage, links, isProcessing, progress, lastToast, pc, i, tasks,
          zipFiles, zipImageCounts, z, downloads, published, saved, addOrder,
          bgDimensions, qrConfig, bgSize, csvParsing, edits, closure, drawn,
          jpegBlob, jpegDpi, jpegResult, nameLink, nameIndex, nameOut>>

\* No call of setDpi and no resolution of a file name is under way.
NoBlob == [bytes |-> <<>>, kind |-> "none", segs |-> <<>>]
NoResult == [state |-> "none", by |-> "none", bytes |-> <<>>]

PureIdle ==
    /\ jpegBlob = NoBlob
    /\ jpegDpi = 0
    /\ jpegResult = NoResult
    /\ nameLink = <<>>
    /\ nameIndex = 0
    /\ nameOut = <<>>

(***************************************************************************)
(* The layout. Lengths in centimetres are kept in tenths, so 16 cm is 160. *)
(***************************************************************************)
\* The initial state of lines 105-106.
DefaultBgDimensions == [widthCm |-> 160, heightCm |-> 90]

DefaultQrConfig == [qrSizeCm |-> 30, marginTopCm |-> 24, marginRightCm |-> 9]

\* The bitmap of the example: 1600 x 900 pixels.
DefaultBgSize == [width |-> 1600, height |-> 900]

\* What generateImages closes over: the state of the render it was made in.
Closure(rows, dims, qr) == [links |-> rows, bgDimensions |-> dims, qrConfig |-> qr]

\* No run has started yet.
NoClosure == Closure(<<>>, DefaultBgDimensions, DefaultQrConfig)

LayoutDefault ==
    /\ bgDimensions = DefaultBgDimensions
    /\ qrConfig = DefaultQrConfig
    /\ bgSize = DefaultBgSize
    /\ csvParsing = FALSE
    /\ edits = 0
    /\ closure = NoClosure
    /\ drawn = {}

\* cmToPx (line 19) of t tenths of a centimetre: Math.round(t / 10 / 2.54 * 300),
\* which is floor(3000 t / 254 + 1/2). No t gives a fraction of exactly 1/2,
\* and the nearest are 1/254 away, so the floating-point value rounds alike.
CmToPx(t) == (3000 * t + 127) \div 254

(***************************************************************************)
(* The geometry of an image (lines 243-265 and 300-301). drawWidth,        *)
(* drawHeight and the offsets are fractions: every length of the record is *)
(* given in units of 1/unit pixel, where unit is twice the width of the    *)
(* bitmap when the bitmap is wider than the canvas and twice its height    *)
(* otherwise. The fractions are exact here; the code computes them in      *)
(* floating point.                                                         *)
(***************************************************************************)
Geometry(dims, qr, img) ==
    LET outputWidthPx == CmToPx(dims.widthCm)
        outputHeightPx == CmToPx(dims.heightCm)
        qrSizePx == CmToPx(qr.qrSizeCm)
        \* imageAspectRatio > canvasAspectRatio, line 255
        wide == img.width * outputHeightPx > outputWidthPx * img.height
        unit == IF wide THEN 2 * img.width ELSE 2 * img.height
        drawWidth == IF wide THEN outputWidthPx * unit ELSE 2 * outputHeightPx * img.width
        drawHeight == IF wide THEN 2 * outputWidthPx * img.height ELSE outputHeightPx * unit
        offsetX == IF wide THEN 0 ELSE (outputWidthPx * unit - drawWidth) \div 2
        offsetY == IF wide THEN (outputHeightPx * unit - drawHeight) \div 2 ELSE 0
    IN  [unit |-> unit,
         offsetX |-> offsetX, offsetY |-> offsetY,
         drawWidth |-> drawWidth, drawHeight |-> drawHeight,
         qrSizePx |-> qrSizePx * unit,
         pasteX |-> offsetX + drawWidth - qrSizePx * unit - CmToPx(qr.marginRightCm) * unit,
         pasteY |-> offsetY + CmToPx(qr.marginTopCm) * unit]

\* LayoutRead reading the state of the latest render instead of the closure.
LayoutReadState(cl) == Closure(links, bgDimensions, qrConfig)

\* The links, bgDimensions and qrConfig a running generateImages reads: the
\* constants of the render whose callback was invoked (lines 105-111, 391).
LayoutRead(cl) == cl

\* What the row task draws (lines 278-305), with the layout it was drawn for.
Drawing(cl, img) ==
    [layout |-> <<cl.bgDimensions, cl.qrConfig>>,
     rect |-> Geometry(cl.bgDimensions, cl.qrConfig, img)]

NoTasks == [k \in 0..(BATCH_SIZE - 1) |-> "none"]

\* A percentage num/den.
Percent(num, den) == <<num, den>>

Init ==
    /\ bgImage \in {"none", "image"}
    /\ links \in RowLists
    /\ isProcessing = FALSE
    /\ progress = Percent(0, 1)
    /\ lastToast = "none"
    /\ pc = "idle"
    /\ i = 0
    /\ tasks = NoTasks
    /\ zipFiles = <<>>
    /\ zipImageCounts = <<>>
    /\ z = 0
    /\ downloads = <<>>
    /\ published = <<>>
    /\ saved = {}
    /\ addOrder = <<>>
    /\ LayoutDefault
    /\ PureIdle

(***************************************************************************)
(* Arrays: arr[idx] = val on a JavaScript array, which grows with holes    *)
(* when idx is at or past its length.                                      *)
(***************************************************************************)
ArraySet(arr, idx, val, hole) ==
    [k \in 1..(IF idx + 1 > Len(arr) THEN idx + 1 ELSE Len(arr)) |->
        IF k = idx + 1 THEN val
        ELSE IF k <= Len(arr) THEN arr[k]
        ELSE hole]

\* zip.file(name, blob) of JSZip: the entry of that name is added, or replaced
\* when the archive already holds one.
ZipFile(zip, name, row) ==
    [zip EXCEPT !.files =
        {e \in zip.files : e.name # name} \cup {[name |-> name, row |-> row]}]

\* Math.floor(fullIndex / IMAGES_PER_ZIP), line 325.
ZipIndex(fullIndex) == fullIndex \div IMAGES_PER_ZIP

\* The body of blobs.forEach for one item (lines 321-345).
SaveItem(st, item, fullIndex, rows) ==
    IF item # "blob" THEN st
    ELSE
        LET zipIndex == ZipIndex(fullIndex)
            missing == \/ zipIndex + 1 > Len(st.zipFiles)
                       \/ st.zipFiles[zipIndex + 1].state # "zip"
            zf0 == IF missing
                   THEN ArraySet(st.zipFiles, zipIndex, NewJSZip, UndefinedSlot)
                   ELSE st.zipFiles
            zc0 == IF missing
                   THEN ArraySet(st.zipImageCounts, zipIndex, 0, UndefinedCount)
                   ELSE st.zipImageCounts
            name == EntryName(rows[fullIndex + 1], fullIndex)
        IN  [zipFiles |-> [zf0 EXCEPT ![zipIndex + 1] = ZipFile(@, name, fullIndex)],
             zipImageCounts |-> [zc0 EXCEPT ![zipIndex + 1] = @ + 1],
             saved |-> st.saved \cup {fullIndex},
             order |-> Append(st.order, fullIndex)]

\* SaveBatch with fullIndex = batchIndex for i + batchIndex on line 322.
RECURSIVE SaveBatchBatchIndex(_, _, _, _, _)
SaveBatchBatchIndex(st, blobs, first, batchIndex, rows) ==
    IF batchIndex >= BATCH_SIZE \/ first + batchIndex >= Len(rows) THEN st
    ELSE SaveBatchBatchIndex(SaveItem(st, blobs[batchIndex], batchIndex, rows),
                             blobs, first, batchIndex + 1, rows)

\* blobs.forEach (lines 320-346) over the items batchIndex, batchIndex+1, ...
RECURSIVE SaveBatch(_, _, _, _, _)
SaveBatch(st, blobs, first, batchIndex, rows) ==
    IF batchIndex >= BATCH_SIZE \/ first + batchIndex >= Len(rows) THEN st
    ELSE SaveBatch(SaveItem(st, blobs[batchIndex], first + batchIndex, rows),
                   blobs, first, batchIndex + 1, rows)

\* The number of rows of the batch that starts at index first (line 274).
BatchLen(first, n) == IF first + BATCH_SIZE <= n THEN BATCH_SIZE ELSE n - first

\* batch.map(async ...) of line 277: every row of the batch gets a task, which
\* runs up to its first await.
StartTasks(first, n) ==
    [k \in 0..(BATCH_SIZE - 1) |-> IF k < BatchLen(first, n) THEN "running" ELSE "none"]

\* NextToFlush with the final flush applying the test of the batch flush: it
\* passes over the archives that are not full.
RECURSIVE NextToFlushFullOnly(_, _, _, _)
NextToFlushFullOnly(zf, zc, from, onlyFull) ==
    IF from >= Len(zf) THEN Len(zf)
    ELSE IF zf[from + 1].state = "zip" /\ zc[from + 1] = IMAGES_PER_ZIP
         THEN from
         ELSE NextToFlushFullOnly(zf, zc, from + 1, onlyFull)

\* NextToFlush with the batch flush testing for more than IMAGES_PER_ZIP.
RECURSIVE NextToFlushOffByOne(_, _, _, _)
NextToFlushOffByOne(zf, zc, from, onlyFull) ==
    IF from >= Len(zf) THEN Len(zf)
    ELSE IF /\ zf[from + 1].state = "zip"
            /\ (onlyFull => zc[from + 1] > IMAGES_PER_ZIP)
         THEN from
         ELSE NextToFlushOffByOne(zf, zc, from + 1, onlyFull)

\* The first index at or after from whose slot satisfies the flush test of
\* line 352 (full) or of line 372 (any archive); Len(zf) when there is none.
RECURSIVE NextToFlush(_, _, _, _)
NextToFlush(zf, zc, from, onlyFull) ==
    IF from >= Len(zf) THEN Len(zf)
    ELSE IF /\ zf[from + 1].state = "zip"
            /\ (onlyFull => zc[from + 1] = IMAGES_PER_ZIP)
         THEN from
         ELSE NextToFlush(zf, zc, from + 1, onlyFull)

\* Download with the suffix z for z + 1.
DownloadZeroBased(zIdx, zip) == [part |-> zIdx, files |-> zip.files]

\* An archive as downloaded: a.download = `uvify_part${z + 1}.zip` and the
\* blob generateAsync made of the entries.
Download(zIdx, zip) == [part |-> zIdx + 1, files |-> zip.files]

(***************************************************************************)
(* The controlling flow of generateImages, cut at its awaits. Each         *)
(* operator below is the synchronous code that runs from one point to the  *)
(* next await; it sets pc, i, z, tasks, isProcessing and lastToast.        *)
(***************************************************************************)
\* Lines 386-390: the run ends.
Finish ==
    /\ isProcessing' = FALSE
    /\ lastToast' = "Success!"
    /\ pc' = "idle"
    /\ tasks' = NoTasks
    /\ UNCHANGED <<i, z>>

\* The final flush loop (lines 371-384) from index from, up to the
\* generateAsync it awaits next, or to the end of the run.
ContinueFinalFlush(zf, zc, from) ==
    LET zn == NextToFlush(zf, zc, from, FALSE)
    IN  IF zn < Len(zf)
        THEN /\ pc' = "finalFlushing"
             /\ z' = zn
             /\ tasks' = NoTasks
             /\ UNCHANGED <<i, isProcessing, lastToast>>
        ELSE Finish

\* The batch loop's test and the start of the batch at index first
\* (lines 273-277), or the final flush when the rows are exhausted.
ContinueBatchLoop(zf, zc, first) ==
    IF first < Len(LayoutRead(closure).links)
    THEN /\ pc' = "batch"
         /\ i' = first
         /\ tasks' = StartTasks(first, Len(LayoutRead(closure).links))
         /\ UNCHANGED <<z, isProcessing, lastToast>>
    ELSE ContinueFinalFlush(zf, zc, 0)

\* The flush loop of a batch (lines 351-367) from index from, up to the
\* generateAsync it awaits next, or on to the next batch.
ContinueFlushLoop(zf, zc, from) ==
    LET zn == NextToFlush(zf, zc, from, TRUE)
    IN  IF zn < Len(zf)
        THEN /\ pc' = "flushing"
             /\ z' = zn
             /\ tasks' = NoTasks
             /\ UNCHANGED <<i, isProcessing, lastToast>>
        ELSE ContinueBatchLoop(zf, zc, i + BATCH_SIZE)

(***************************************************************************)
(* Actions.                                                                *)
(***************************************************************************)
\* MissingInputs with && for ||.
MissingInputsBoth(bg, rows) == bg = "none" /\ Len(rows) = 0

\* The input check of line 231.
MissingInputs(bg, rows) == bg = "none" \/ Len(rows) = 0

\* generateImages is invoked (lines 230-249). The button that invokes it is
\* disabled while isProcessing.
GenerateImages ==
    /\ pc = "idle"
    /\ ~isProcessing
    /\ IF MissingInputs(bgImage, links)
       THEN /\ lastToast' = "Missing Inputs"
            /\ UNCHANGED <<pureVars, configVars, snapVars, bgImage, links, isProcessing, progress, pc, i, tasks,
                           zipFiles, zipImageCounts, z, downloads, published, saved, addOrder>>
       ELSE /\ isProcessing' = TRUE
            /\ progress' = Percent(0, 1)
            /\ published' = <<Percent(0, 1)>>
            /\ pc' = "loadBg"
            /\ zipFiles' = <<>>
            /\ zipImageCounts' = <<>>
            /\ downloads' = <<>>
            /\ saved' = {}
            /\ addOrder' = <<>>
            /\ closure' = Closure(links, bgDimensions, qrConfig)
            /\ drawn' = {}
            /\ UNCHANGED <<pureVars, configVars, bgImage, links, lastToast, i, tasks, z>>

\* bgImageElement.onload fires (line 249); lines 251-277 run and the first
\* batch starts.
BgImageLoaded ==
    /\ pc = "loadBg"
    /\ pc' = "batch"
    /\ i' = 0
    /\ tasks' = StartTasks(0, Len(LayoutRead(closure).links))
    /\ UNCHANGED <<pureVars, configVars, snapVars, bgImage, links, isProcessing, progress, lastToast,
                   zipFiles, zipImageCounts, z, downloads, published, saved, addOrder>>

\* The outcomes of a row task (lines 277-316): it returns { blob, link },
\* it returns null (canvas.toBlob gave null), or it rejects
\* (QRCode.toDataURL rejected).
TaskOutcomes == {"blob", "null", "rejected"}

\* TaskSettles with the task itself passing its blob to zip.file.
TaskSettlesSaving(k) ==
    /\ pc \in {"batch", "rejected"}
    /\ tasks[k] = "running"
    /\ \E outcome \in TaskOutcomes :
           /\ tasks' = [tasks EXCEPT ![k] = outcome]
           /\ LET st == SaveItem([zipFiles |-> zipFiles,
                                  zipImageCounts |-> zipImageCounts,
                                  saved |-> saved,
                                  order |-> addOrder],
                                 outcome, i + k, LayoutRead(closure).links)
              IN  /\ zipFiles' = st.zipFiles
                  /\ zipImageCounts' = st.zipImageCounts
           /\ drawn' = IF outcome = "blob"
                       THEN drawn \cup {Drawing(LayoutRead(closure), bgSize)}
                       ELSE drawn
    /\ UNCHANGED <<pureVars, configVars, closure, bgImage, links, isProcessing, progress, lastToast, pc, i,
                   z, downloads, published, saved, addOrder>>

\* The row task of batch index k settles. The tasks still running when
\* Promise.all has rejected keep running.
TaskSettles(k) ==
    /\ pc \in {"batch", "rejected"}
    /\ tasks[k] = "running"
    /\ \E outcome \in TaskOutcomes :
           /\ tasks' = [tasks EXCEPT ![k] = outcome]
           /\ drawn' = IF outcome = "blob"
                       THEN drawn \cup {Drawing(LayoutRead(closure), bgSize)}
                       ELSE drawn
    /\ UNCHANGED <<pureVars, configVars, closure, bgImage, links, isProcessing, progress, lastToast, pc, i,
                   zipFiles, zipImageCounts, z, downloads, published, saved, addOrder>>

\* Promise.all rejects as soon as one task has rejected (line 276). Nothing
\* catches it: generateImages rejects and the rest of it never runs.
PromiseAllRejects ==
    /\ pc = "batch"
    /\ \E k \in DOMAIN tasks : tasks[k] = "rejected"
    /\ pc' = "rejected"
    /\ UNCHANGED <<pureVars, configVars, snapVars, bgImage, links, isProcessing, progress, lastToast, i, tasks,
                   zipFiles, zipImageCounts, z, downloads, published, saved, addOrder>>

\* PromiseAllFulfilled with Promise.any for Promise.all: fulfilled as soon as
\* one task is.
PromiseAnyFulfilled(ts) ==
    /\ \A k \in DOMAIN ts : ts[k] # "rejected"
    /\ \E k \in DOMAIN ts : ts[k] \in {"blob", "null"}

\* The promise of Promise.all (line 276) is fulfilled: every task of the
\* batch has returned.
PromiseAllFulfilled(ts) == \A k \in DOMAIN ts : ts[k] \in {"none", "blob", "null"}

\* The value passed to setProgress on line 348.
BatchProgress(first, n) == Percent((first + BATCH_SIZE) * 100, n)

\* Promise.all resolves (line 276): the blobs are saved (lines 320-346),
\* progress is published (line 348) and the flush loop starts (line 351).
BatchDone ==
    /\ pc = "batch"
    /\ PromiseAllFulfilled(tasks)
    /\ LET st == SaveBatch([zipFiles |-> zipFiles,
                            zipImageCounts |-> zipImageCounts,
                            saved |-> saved,
                            order |-> addOrder],
                           tasks, i, 0, LayoutRead(closure).links)
       IN  /\ zipFiles' = st.zipFiles
           /\ zipImageCounts' = st.zipImageCounts
           /\ saved' = st.saved
           /\ addOrder' = st.order
           /\ progress' = BatchProgress(i, Len(LayoutRead(closure).links))
           /\ published' = Append(published, BatchProgress(i, Len(LayoutRead(closure).links)))
           /\ ContinueFlushLoop(st.zipFiles, st.zipImageCounts, 0)
    /\ UNCHANGED <<pureVars, configVars, snapVars, bgImage, links, downloads>>

\* ClearSlot without line 364: the flushed archive stays in its slot.
ClearSlotKeeps(zf, idx) == zf

\* Line 364: the slot of a flushed archive is cleared.
ClearSlot(zf, idx) == [zf EXCEPT ![idx + 1] = NullSlot]

\* generateAsync of a full archive resolves (line 353): the archive is
\* downloaded, its slot is cleared and the flush loop goes on (lines 355-366).
ZipGenerated ==
    /\ pc = "flushing"
    /\ downloads' = Append(downloads, Download(z, zipFiles[z + 1]))
    /\ zipFiles' = ClearSlot(zipFiles, z)
    /\ zipImageCounts' = [zipImageCounts EXCEPT ![z + 1] = 0]
    /\ ContinueFlushLoop(zipFiles', zipImageCounts', z + 1)
    /\ UNCHANGED <<pureVars, configVars, snapVars, bgImage, links, progress, published, saved, addOrder>>

\* generateAsync of the final flush resolves (line 373): the archive is
\* downloaded and the final flush goes on (lines 375-383).
FinalZipGenerated ==
    /\ pc = "finalFlushing"
    /\ downloads' = Append(downloads, Download(z, zipFiles[z + 1]))
    /\ ContinueFinalFlush(zipFiles, zipImageCounts, z + 1)
    /\ UNCHANGED <<pureVars, configVars, snapVars, bgImage, links, progress, published, saved, addOrder,
                   zipFiles, zipImageCounts>>

Next ==
    \/ GenerateImages
    \/ BgImageLoaded
    \/ \E k \in 0..(BATCH_SIZE - 1) : TaskSettles(k)
    \/ PromiseAllRejects
    \/ BatchDone
    \/ ZipGenerated
    \/ FinalZipGenerated

Spec == Init /\ [][Next]_vars

(***************************************************************************)
(* Vocabulary of the properties.                                           *)
(***************************************************************************)
\* The run has gone through the final flush and returned.
RunCompleted == pc = "idle" /\ lastToast = "Success!"

\* The run stopped at a rejected Promise.all and every task has settled.
RunRejected == pc = "rejected" /\ \A k \in DOMAIN tasks : tasks[k] # "running"

RowIndices == 0..(Len(links) - 1)

RECURSIVE SumEntries(_)
SumEntries(ds) ==
    IF ds = <<>> THEN 0 ELSE Cardinality(Head(ds).files) + SumEntries(Tail(ds))

Parts == {downloads[j].part : j \in DOMAIN downloads}

MaxPart == IF Parts = {} THEN 0 ELSE CHOOSE p \in Parts : \A q \in Parts : q <= p

\* The row's blob was passed to zip.file and the archive of its index was
\* downloaded.
RowPlaced(r) == r \in saved /\ (ZipIndex(r) + 1) \in Parts

\* The row's task of the current batch returned null or rejected.
RowTaskFailed(r) ==
    /\ r >= i
    /\ r < i + BATCH_SIZE
    /\ tasks[r - i] \in {"null", "rejected"}

\* Percentages a <= b, a = b.
PercentLeq(a, b) == a[1] * b[2] <= b[1] * a[2]
PercentEq(a, b) == a[1] * b[2] = b[1] * a[2]

Min(a, b) == IF a <= b THEN a ELSE b

CeilDiv(a, b) == (a + b - 1) \div b

(***************************************************************************)
(* C1. The entries of all downloaded archives of a completed run are as    *)
(* many as the rows that produced a blob. The code breaks it: zip.file     *)
(* replaces the entry of a row whose file name is already in the archive.  *)
(***************************************************************************)
C1_EntriesEqualArtifacts ==
    RunCompleted => SumEntries(downloads) = Cardinality(saved)

(***************************************************************************)
(* C2. No downloaded archive holds more than IMAGES_PER_ZIP entries, and   *)
(* every archive but the one of the highest index holds exactly            *)
(* IMAGES_PER_ZIP entries. The code breaks the second half: an archive     *)
(* with a row that returned null stays short and is flushed at the end.    *)
(***************************************************************************)
C2_ShardSizes ==
    RunCompleted =>
        \A j \in DOMAIN downloads :
            /\ Cardinality(downloads[j].files) <= IMAGES_PER_ZIP
            /\ downloads[j].part # MaxPart =>
                   Cardinality(downloads[j].files) = IMAGES_PER_ZIP

(***************************************************************************)
(* C3. When a row task fails, every other row still has its artifact       *)
(* placed in a downloaded archive. The code breaks it: a rejected task     *)
(* rejects Promise.all, which nothing catches, and the run stops.          *)
(***************************************************************************)
C3_FailureIsolated ==
    RunRejected =>
        \A r \in RowIndices : ~RowTaskFailed(r) => RowPlaced(r)

(***************************************************************************)
(* C4. The published progress values never decrease and lie between 0 and  *)
(* 100 percent. The code breaks the range: i + BATCH_SIZE exceeds the row  *)
(* count in a last batch that is not full.                                 *)
(***************************************************************************)
C4_ProgressMonotoneInRange ==
    /\ \A j \in DOMAIN published :
           /\ PercentLeq(Percent(0, 1), published[j])
           /\ PercentLeq(published[j], Percent(100, 1))
    /\ \A j \in 1..(Len(published) - 1) : PercentLeq(published[j], published[j + 1])

(***************************************************************************)
(* C5. The value published after the batch that starts at index i is       *)
(* min(i + BATCH_SIZE, total) / total. The code publishes                  *)
(* (i + BATCH_SIZE) / total.                                               *)
(***************************************************************************)
C5_ProgressIsRowsDone ==
    \A j \in 2..Len(published) :
        PercentEq(published[j],
                  Percent(Min((j - 2) * BATCH_SIZE + BATCH_SIZE, Len(links)) * 100,
                          Len(links)))

(***************************************************************************)
(* C6. When the run has gone through the final flush, every archive still  *)
(* in zipFiles has been downloaded with the entries it holds, full or not, *)
(* and every row passed to zip.file is in an archive that was downloaded.  *)
(***************************************************************************)
C6_FinalFlushEmitsOpenShards ==
    RunCompleted =>
        /\ \A zIdx \in 0..(Len(zipFiles) - 1) :
               zipFiles[zIdx + 1].state = "zip" =>
                   \E j \in DOMAIN downloads :
                       downloads[j] = Download(zIdx, zipFiles[zIdx + 1])
        /\ \A r \in saved : (ZipIndex(r) + 1) \in Parts

\* A completed run whose only archive is not full.
C6_Witness ==
    /\ RunCompleted
    /\ Len(downloads) = 1
    /\ Len(zipFiles) = 1
    /\ zipFiles[1].state = "zip"
    /\ zipImageCounts[1] < IMAGES_PER_ZIP
    /\ zipImageCounts[1] > 0

(***************************************************************************)
(* C7, as stated: at the start of every batch no archive is open whose     *)
(* index range has been processed completely. A row that returned null     *)
(* keeps its archive short of IMAGES_PER_ZIP, and open, to the final flush.*)
(***************************************************************************)
ShardRange(zIdx) == (zIdx * IMAGES_PER_ZIP)..((zIdx + 1) * IMAGES_PER_ZIP - 1)

C8_ShardClosedOnce ==
    [][pc # "idle" =>
          /\ \A j, k \in DOMAIN downloads' :
                 downloads'[j].part = downloads'[k].part => j = k
          /\ \A j \in DOMAIN downloads :
                 /\ zipFiles'[downloads[j].part] = zipFiles[downloads[j].part]
                 /\ zipImageCounts'[downloads[j].part] =
                        zipImageCounts[downloads[j].part]]_vars

\* A completed run that downloaded a full archive, cleared it, and then a
\* second archive.
C8_Witness ==
    /\ RunCompleted
    /\ Len(downloads) = 2
    /\ zipFiles[1] = NullSlot
    /\ zipFiles[2].state = "zip"

(***************************************************************************)
(* C9. A completed run all of whose N rows produced an artifact downloads  *)
(* ceil(N / IMAGES_PER_ZIP) archives, all of IMAGES_PER_ZIP entries but    *)
(* the last, which holds the rest. The code breaks the sizes when two rows *)
(* of an archive have the same file name (C1).                             *)
(***************************************************************************)
C9_ShardCountAndSizes ==
    (RunCompleted /\ saved = RowIndices) =>
        LET n == Len(links)
            shards == CeilDiv(n, IMAGES_PER_ZIP)
        IN  /\ Len(downloads) = shards
            /\ \A j \in DOMAIN downloads :
                   Cardinality(downloads[j].files) =
                       IF j < shards THEN IMAGES_PER_ZIP
                       ELSE n - IMAGES_PER_ZIP * (shards - 1)

(***************************************************************************)
(* C10. Invoked without a background image or with an empty row list,      *)
(* generateImages shows the error toast and changes nothing else: no task  *)
(* starts, nothing is downloaded or published, isProcessing and progress   *)
(* stay. Invoked with both, it starts the run.                             *)
(***************************************************************************)
C10_FailFastOnMissingInputs ==
    [][pc = "idle" =>
          IF bgImage = "none" \/ links = <<>>
          THEN /\ lastToast' = "Missing Inputs"
               /\ UNCHANGED <<pureVars, configVars, snapVars, bgImage, links, isProcessing, progress, pc, i, tasks,
                              zipFiles, zipImageCounts, z, downloads, published,
                              saved, addOrder>>
          ELSE /\ isProcessing'
               /\ pc' = "loadBg"
               /\ published' = <<Percent(0, 1)>>]_vars

\* generateImages has returned from the input check with a row list but no
\* background image.
C10_Witness ==
    /\ lastToast = "Missing Inputs"
    /\ bgImage = "none"
    /\ links # <<>>
    /\ pc = "idle"
    /\ ~isProcessing
    /\ published = <<>>
    /\ downloads = <<>>

(***************************************************************************)
(* C11. A run that passed the input check is never left stopped with       *)
(* isProcessing still true. The code breaks it: when a row task rejects,   *)
(* generateImages rejects at the await of Promise.all and line 386 never   *)
(* runs.                                                                   *)
(***************************************************************************)
C11_RunNeverStuck == ~(pc = "rejected" /\ isProcessing)

(***************************************************************************)
(* C12. Whatever the order in which the row tasks of a batch settle, an    *)
(* entry is in the archive floor(index / IMAGES_PER_ZIP) of its row's      *)
(* global index, in zipFiles and in every download, and zip.file is        *)
(* called in increasing order of the global index.                         *)
(***************************************************************************)
C12_PlacementByIndexOnly ==
    /\ \A zIdx \in 0..(Len(zipFiles) - 1) :
           \A e \in zipFiles[zIdx + 1].files : e.row \div IMAGES_PER_ZIP = zIdx
    /\ \A j \in DOMAIN downloads :
           \A e \in downloads[j].files :
               e.row \div IMAGES_PER_ZIP = downloads[j].part - 1
    /\ \A j, k \in DOMAIN addOrder : j < k => addOrder[j] < addOrder[k]

\* The blobs of the first batch were saved, and in the second batch the
\* task of the second row has settled before the task of the first row.
C12_Witness ==
    /\ pc = "batch"
    /\ i = BATCH_SIZE
    /\ addOrder = <<0, 1, 2, 3>>
    /\ tasks[0] = "running"
    /\ tasks[1] = "blob"

(***************************************************************************)
(* C13. At most BATCH_SIZE row tasks are in flight at any moment, and a    *)
(* row task starts only when no row task is in flight: the tasks of a      *)
(* batch start after every task of the batch before has settled.           *)
(***************************************************************************)
InFlight(ts) == Cardinality({k \in DOMAIN ts : ts[k] = "running"})

C13_BoundedConcurrency ==
    [][/\ InFlight(tasks') <= BATCH_SIZE
       /\ (\E k \in DOMAIN tasks' :
               /\ tasks'[k] = "running"
               /\ (k \notin DOMAIN tasks \/ tasks[k] # "running"))
          => InFlight(tasks) = 0]_vars

\* The second batch has started, after a first batch of BATCH_SIZE tasks.
C13_Witness ==
    /\ pc = "batch"
    /\ i = BATCH_SIZE
    /\ Len(addOrder) = BATCH_SIZE
    /\ InFlight(tasks) >= 2

(***************************************************************************)
(* C14. zipFiles and zipImageCounts change only in steps taken while no    *)
(* row task is in flight: a step in which a row task settles leaves them   *)
(* as they are.                                                            *)
(***************************************************************************)
C14_ShardStateOnlyBetweenBatches ==
    [][(zipFiles' # zipFiles \/ zipImageCounts' # zipImageCounts)
          => InFlight(tasks) = 0]_vars

\* Row tasks are in flight while an archive that is not full holds entries.
C14_Witness ==
    /\ pc = "batch"
    /\ InFlight(tasks) >= 1
    /\ \E zIdx \in 0..(Len(zipFiles) - 1) :
           /\ zipFiles[zIdx + 1].state = "zip"
           /\ zipFiles[zIdx + 1].files # {}

DPI == 300

\* view.getUint16(offset), big-endian. DataView throws a RangeError when the
\* two bytes are not inside the buffer.
CanGetUint16(buf, offset) == offset + 2 <= Len(buf)

GetUint16(buf, offset) == buf[offset + 1] * 256 + buf[offset + 2]

\* arrayBuffer.slice(begin, end): the bytes begin..end-1, end cut to the length.
BufferSlice(buf, begin, end) ==
    SubSeq(buf, begin + 1, IF end > Len(buf) THEN Len(buf) ELSE end)

\* The while loop of lines 41-68 from offset on: the segments pushed, or
\* threw when a getUint16 was out of range.
RECURSIVE WalkSegments(_, _, _)
WalkSegments(buf, offset, segments) ==
    IF offset >= Len(buf) THEN [threw |-> FALSE, segments |-> segments]
    ELSE IF ~CanGetUint16(buf, offset) THEN [threw |-> TRUE, segments |-> segments]
    ELSE
        LET marker == GetUint16(buf, offset)
            at == offset + 2
        IN  IF marker = 65504                               \* 0xFFE0, APP0
            THEN IF ~CanGetUint16(buf, at)
                 THEN [threw |-> TRUE, segments |-> segments]
                 ELSE WalkSegments(buf, at + GetUint16(buf, at), segments)
            ELSE IF (marker >= 65488 /\ marker <= 65497)    \* 0xFFD0..0xFFD9
                    \/ marker = 65281                       \* 0xFF01
            THEN WalkSegments(buf, at, segments)
            ELSE IF marker = 65498                          \* 0xFFDA, SOS
            THEN [threw |-> FALSE,
                  segments |-> Append(segments, BufferSlice(buf, at - 2, Len(buf)))]
            ELSE IF ~CanGetUint16(buf, at)
            THEN [threw |-> TRUE, segments |-> segments]
            ELSE LET len == GetUint16(buf, at)
                 IN  IF len < 2
                     THEN [threw |-> FALSE, segments |-> segments]
                     ELSE WalkSegments(buf, at + len,
                              Append(segments, BufferSlice(buf, at - 2, at + len)))

\* app0Data with the units byte left at 0 (no setUint8(11, 1)).
App0DataNoUnits(dpi) ==
    <<255, 224, 0, 16, 74, 70, 73, 70, 0, 1, 1, 0,
      (dpi % 65536) \div 256, dpi % 256,
      (dpi % 65536) \div 256, dpi % 256>>

\* The 16 bytes of app0Data (lines 71-83); setUint16 keeps dpi modulo 2^16.
App0Data(dpi) ==
    <<255, 224,                       \* APP0 marker
      0, 16,                          \* length of segment
      74, 70, 73, 70, 0,              \* J F I F \0
      1, 1,                           \* version 1.01
      1,                              \* units: 1 for DPI
      (dpi % 65536) \div 256, dpi % 256,
      (dpi % 65536) \div 256, dpi % 256>>

Soi == <<255, 216>>

RECURSIVE Concat(_)
Concat(parts) == IF parts = <<>> THEN <<>> ELSE Head(parts) \o Concat(Tail(parts))

\* The bytes of the blob reader.onload resolves with (lines 31-93): the new
\* blob, or the blob given when the walk threw.
SetDpiBytes(buf, dpi) ==
    LET walk == WalkSegments(buf, 2, <<>>)
    IN  IF walk.threw THEN buf
        ELSE Soi \o App0Data(dpi) \o Concat(walk.segments)

(***************************************************************************)
(* The blobs setDpi is applied to. A well-formed JPEG is the start-of-     *)
(* image marker, at most MaxSegs segments of the pool, the start-of-scan   *)
(* header, scan data and the end-of-image marker. The pool holds a JFIF    *)
(* density segment, a JFXX extension segment (APP0 too), an APP1 segment,  *)
(* a DQT segment and the marker TEM, which has no length field. A          *)
(* malformed JPEG is a well-formed one cut before the end of its           *)
(* start-of-scan header (inside a segment, or at the end of one, which     *)
(* leaves no start-of-scan marker), or one with a segment of declared      *)
(* length 0 or 1.                                                          *)
(***************************************************************************)
MaxSegs == 2

JfifSegment == <<255, 224, 0, 16, 74, 70, 73, 70, 0, 1, 1, 0, 0, 1, 0, 1, 0, 0>>
JfxxSegment == <<255, 224, 0, 8, 74, 70, 88, 88, 0, 16>>
App1Segment == <<255, 225, 0, 3, 7>>
DqtSegment == <<255, 219, 0, 4, 1, 2>>
TemMarker == <<255, 1>>

SegmentPool == {JfifSegment, JfxxSegment, App1Segment, DqtSegment, TemMarker}

SosHeader == <<255, 218, 0, 3, 9>>
ScanAndEoi == <<5, 6, 255, 217>>

BadLengthSegments == {<<255, 225, 0, 1>>, <<255, 219, 0, 0>>}

SegLists == UNION { [1..n -> SegmentPool] : n \in 0..MaxSegs }

WellFormedBlobs ==
    { [bytes |-> Soi \o Concat(segs) \o SosHeader \o ScanAndEoi,
       kind |-> "wellformed",
       segs |-> segs] : segs \in SegLists }

\* The lengths at which a segment of the list ends.
SegmentEnds(segs) == { 2 + Len(Concat(SubSeq(segs, 1, m))) : m \in 0..Len(segs) }

TruncatedBlobs ==
    UNION { { [bytes |-> SubSeq(Soi \o Concat(segs) \o SosHeader, 1, n),
               kind |-> IF n \in SegmentEnds(segs) THEN "nosos" ELSE "truncated",
               segs |-> segs] :
              n \in 0..(Len(Soi \o Concat(segs) \o SosHeader) - 1) } :
            segs \in SegLists }

BadLengthBlobs ==
    { [bytes |-> Soi \o Concat(segs) \o bad \o SosHeader \o ScanAndEoi,
       kind |-> "badlength",
       segs |-> segs] : segs \in SegLists, bad \in BadLengthSegments }

JpegBlobs == WellFormedBlobs \cup TruncatedBlobs \cup BadLengthBlobs

\* The densities setDpi is called with: DPI, as on line 312, and 72.
DpiValues == {DPI, 72}

\* generateImages has not been invoked.
RunIdle ==
    /\ bgImage = "none"
    /\ links = <<>>
    /\ isProcessing = FALSE
    /\ progress = Percent(0, 1)
    /\ lastToast = "none"
    /\ pc = "idle"
    /\ i = 0
    /\ tasks = NoTasks
    /\ zipFiles = <<>>
    /\ zipImageCounts = <<>>
    /\ z = 0
    /\ downloads = <<>>
    /\ published = <<>>
    /\ saved = {}
    /\ addOrder = <<>>
    /\ LayoutDefault

InitDpi ==
    /\ RunIdle
    /\ jpegBlob \in JpegBlobs
    /\ jpegDpi \in DpiValues
    /\ jpegResult = NoResult
    /\ nameLink = <<>>
    /\ nameIndex = 0
    /\ nameOut = <<>>

\* reader.onload (lines 31-94): the promise resolves with the new blob, or
\* with the blob given when the try block threw.
ReaderOnLoad ==
    /\ jpegBlob.kind # "none"
    /\ jpegResult.state = "none"
    /\ jpegResult' = [state |-> "resolved", by |-> "onload",
                      bytes |-> SetDpiBytes(jpegBlob.bytes, jpegDpi)]
    /\ UNCHANGED <<runVars, jpegBlob, jpegDpi, nameLink, nameIndex, nameOut>>

\* reader.onerror (lines 95-98): the promise resolves with the blob given.
ReaderOnError ==
    /\ jpegBlob.kind # "none"
    /\ jpegResult.state = "none"
    /\ jpegResult' = [state |-> "resolved", by |-> "onerror",
                      bytes |-> jpegBlob.bytes]
    /\ UNCHANGED <<runVars, jpegBlob, jpegDpi, nameLink, nameIndex, nameOut>>

NextDpi == ReaderOnLoad \/ ReaderOnError

SpecDpi == InitDpi /\ [][NextDpi]_vars

(***************************************************************************)
(* C16. Given a malformed JPEG (cut inside a segment, without a            *)
(* start-of-scan marker, or with a segment of declared length below 2),    *)
(* setDpi resolves with the bytes it was given. The code breaks it: only a *)
(* getUint16 out of range reaches the catch; the other cases end the loop  *)
(* and a new blob is built from the segments pushed so far.                *)
(***************************************************************************)
C16_MalformedReturnsOriginal ==
    (jpegBlob.kind \in {"truncated", "nosos", "badlength"} /\ jpegResult.state # "none")
        => /\ jpegResult.state = "resolved"
           /\ jpegResult.bytes = jpegBlob.bytes

(***************************************************************************)
(* C17. For a well-formed JPEG the blob of reader.onload is the            *)
(* start-of-image marker, a JFIF density segment, then every segment of    *)
(* the input that is not a JFIF density segment, in order and unchanged,   *)
(* then the start-of-scan header and the scan data of the input. The code  *)
(* breaks it: it drops every APP0 segment and every marker without a       *)
(* length field.                                                           *)
(***************************************************************************)
IsJfifDensity(seg) ==
    /\ Len(seg) >= 9
    /\ SubSeq(seg, 1, 2) = <<255, 224>>
    /\ SubSeq(seg, 5, 9) = <<74, 70, 73, 70, 0>>

C17_OtherSegmentsUnchanged ==
    (jpegBlob.kind = "wellformed" /\ jpegResult.by = "onload") =>
        LET kept == SelectSeq(jpegBlob.segs, LAMBDA s : ~IsJfifDensity(s))
            rest == Concat(kept) \o SosHeader \o ScanAndEoi
            out == jpegResult.bytes
        IN  /\ Len(out) >= 2 + Len(rest)
            /\ SubSeq(out, 1, 2) = Soi
            /\ IsJfifDensity(SubSeq(out, 3, Len(out) - Len(rest)))
            /\ SubSeq(out, Len(out) - Len(rest) + 1, Len(out)) = rest

(***************************************************************************)
(* C18. For a well-formed JPEG, with or without a density segment, the     *)
(* blob of reader.onload starts with the start-of-image marker followed by *)
(* a JFIF density segment whose units byte is 1 and whose horizontal and   *)
(* vertical density are both dpi, and the APP0 marker occurs nowhere else  *)
(* in it. The segment is read as a consumer reads it, by its declared      *)
(* length. (No byte of a segment payload of the pool is 255, so an         *)
(* occurrence of the bytes 255, 224 is an APP0 marker.)                    *)
(***************************************************************************)
SegmentAt(buf, offset) ==
    SubSeq(buf, offset + 1, offset + 2 + GetUint16(buf, offset + 2))

App0Positions(buf) ==
    { p \in 1..(Len(buf) - 1) : buf[p] = 255 /\ buf[p + 1] = 224 }

C18_OneDensitySegmentWithDpi ==
    (jpegBlob.kind = "wellformed" /\ jpegResult.by = "onload") =>
        LET out == jpegResult.bytes
        IN  /\ Len(out) >= 20
            /\ SubSeq(out, 1, 2) = <<255, 216>>
            /\ LET seg == SegmentAt(out, 2)
               IN  /\ IsJfifDensity(seg)
                   /\ seg[12] = 1
                   /\ seg[13] * 256 + seg[14] = jpegDpi
                   /\ seg[15] * 256 + seg[16] = jpegDpi
            /\ App0Positions(out) = {3}

\* setDpi has patched a well-formed JPEG that had a density segment, and one
\* that had none.
C18_Witness ==
    /\ jpegBlob.kind = "wellformed"
    /\ jpegResult.by = "onload"
    /\ jpegBlob.segs = <<JfifSegment, DqtSegment>>
    /\ jpegDpi = DPI

C18_WitnessNoDensity ==
    /\ jpegBlob.kind = "wellformed"
    /\ jpegResult.by = "onload"
    /\ jpegBlob.segs = <<DqtSegment>>
    /\ jpegDpi = DPI

(***************************************************************************)
(* The links and row positions an entry name is computed for: every string *)
(* of at most MaxLinkLen characters over a letter, the separators "?", "=" *)
(* and "&", and "+", which is outside [a-zA-Z0-9_-]; the positions of the  *)
(* 1st, the 7th and the 10th row.                                          *)
(***************************************************************************)
MaxLinkLen == 6

LinkChars == {"a", "?", "=", "&", "+"}

NameLinks == UNION { [1..n -> LinkChars] : n \in 0..MaxLinkLen }

NameIndices == {0, 6, 9}

InitName ==
    /\ RunIdle
    /\ jpegBlob = NoBlob
    /\ jpegDpi = 0
    /\ jpegResult = NoResult
    /\ nameLink \in NameLinks
    /\ nameIndex \in NameIndices
    /\ nameOut = <<>>

\* Lines 322-344 for one saved item: the name its entry is filed under.
NameEntry ==
    /\ nameOut = <<>>
    /\ nameOut' = EntryName(nameLink, nameIndex)
    /\ UNCHANGED <<runVars, jpegBlob, jpegDpi, jpegResult, nameLink, nameIndex>>

NextName == NameEntry

SpecName == InitName /\ [][NextName]_vars

\* The entry name has been computed (it is never empty: it ends in ".jpg").
Named == nameOut # <<>>

\* The query string as everything after the first "?", and the sanitized
\* value of its last parameter (empty when it has no parameter).
HasQuery(link) == IndexOf(link, "?") # 0

QueryAfterFirstMark(link) == SubSeq(link, IndexOf(link, "?") + 1, Len(link))

LastValueSanitized(link) ==
    LET values == ParamValues(QueryAfterFirstMark(link))
    IN  IF ~HasQuery(link) \/ Len(values) = 0 THEN <<>>
        ELSE Sanitize(values[Len(values)])

AtMostOneMark(link) == Len(Split(link, "?")) <= 2

\* "qr_image_" and n in four decimal digits, for n below 10000.
PaddedPosition(n) ==
    QrImagePrefix \o <<DigitChar((n \div 1000) % 10), DigitChar((n \div 100) % 10),
                       DigitChar((n \div 10) % 10), DigitChar(n % 10)>>

(***************************************************************************)
(* C19. For a link with a query string, everything after its first "?",    *)
(* whose last parameter has a value that is not empty, the entry name is   *)
(* that value with every character outside [a-zA-Z0-9_-] replaced by "_",  *)
(* followed by ".jpg". The code breaks it for a link with a second "?":    *)
(* link.split("?")[1] ends at the second "?".                              *)
(***************************************************************************)
C19_NameIsLastParameterValue ==
    (Named /\ HasQuery(nameLink) /\ LastValueSanitized(nameLink) # <<>>)
        => nameOut = LastValueSanitized(nameLink) \o JpgExtension

\* What holds of the code: the statement of C19 for links with one "?".
C19_NameIsLastParameterValueOneMark ==
    (Named /\ HasQuery(nameLink) /\ AtMostOneMark(nameLink)
           /\ LastValueSanitized(nameLink) # <<>>)
        => nameOut = LastValueSanitized(nameLink) \o JpgExtension

(***************************************************************************)
(* C20. For a link without a query string, or whose last parameter has an  *)
(* empty sanitized value, the entry name is "qr_image_" followed by the    *)
(* 1-based position of the row in four digits, and ".jpg"; no entry name   *)
(* is empty. The code breaks the first part for a link with a second "?",  *)
(* where it reads another query string than the claim does (see C19).      *)
(***************************************************************************)
C20_FallbackIsPaddedPosition ==
    Named =>
        /\ Len(nameOut) > Len(JpgExtension)
        /\ (~HasQuery(nameLink) \/ LastValueSanitized(nameLink) = <<>>)
               => nameOut = PaddedPosition(nameIndex + 1) \o JpgExtension

\* What holds of the code: the statement of C20 for links with at most one
\* "?".
C20_FallbackIsPaddedPositionOneMark ==
    Named =>
        /\ Len(nameOut) > Len(JpgExtension)
        /\ (AtMostOneMark(nameLink)
              /\ (~HasQuery(nameLink) \/ LastValueSanitized(nameLink) = <<>>))
               => nameOut = PaddedPosition(nameIndex + 1) \o JpgExtension

(***************************************************************************)
(* C26. At every batch boundary, the point after the save and the flush    *)
(* loop of a batch, at most one slot of zipFiles holds an archive.         *)
(* zipFiles keeps its value of the boundary while the next batch is under  *)
(* way, and after the last batch through the final flush, which clears no  *)
(* slot. The code breaks the claim: an archive with a row that returned    *)
(* null never reaches IMAGES_PER_ZIP, so the flush loop of the batches     *)
(* leaves it in its slot while the archives of the later rows are opened   *)
(* (see C2).                                                               *)
(***************************************************************************)
OpenSlots == { s \in DOMAIN zipFiles : zipFiles[s].state = "zip" }

C26_AtMostOneOpenShard ==
    pc \in {"batch", "finalFlushing"} => Cardinality(OpenSlots) <= 1

(***************************************************************************)
(* The change handlers and the specification of the layout: the run of     *)
(* generateImages together with handleBgDimChange, handleQrConfigChange    *)
(* and handleCsvChange, which can be called before and while a run is      *)
(* under way. At most MaxEdits calls of the handlers are followed. The     *)
(* row lists have fewer than IMAGES_PER_ZIP rows, so no archive is flushed *)
(* in the batch loop and ZipGenerated has no part in it.                   *)
(***************************************************************************)
MaxEdits == 2

\* The values typed into the width and height inputs: the empty input, which
\* `value || 0` turns into 0, and 2 cm.
DimValues == {0, 20}

\* The values given to handleQrConfigChange: 0 and 9 cm.
QrValues == {0, 90}

\* The bitmaps: the one of the example, one wider and one narrower than the
\* layout, and one that has the pixel size of the default canvas.
BgSizes ==
    {DefaultBgSize, [width |-> 1600, height |-> 300], [width |-> 900, height |-> 900],
     [width |-> 1890, height |-> 1063]}

LayoutRows == << <<"a">>, <<"b", "?", "i", "=", "2">> >>

\* The rows Papa.parse finds in an uploaded file.
CsvRowLists == { <<>>, << <<"c">> >> }

InitLayout ==
    /\ bgImage = "image"
    /\ links = LayoutRows
    /\ isProcessing = FALSE
    /\ progress = Percent(0, 1)
    /\ lastToast = "none"
    /\ pc = "idle"
    /\ i = 0
    /\ tasks = NoTasks
    /\ zipFiles = <<>>
    /\ zipImageCounts = <<>>
    /\ z = 0
    /\ downloads = <<>>
    /\ published = <<>>
    /\ saved = {}
    /\ addOrder = <<>>
    /\ bgDimensions = DefaultBgDimensions
    /\ qrConfig = DefaultQrConfig
    /\ bgSize \in BgSizes
    /\ csvParsing = FALSE
    /\ edits = 0
    /\ closure = NoClosure
    /\ drawn = {}
    /\ PureIdle

\* handleBgDimChange(key, value), lines 174-185.
HandleBgDimChange ==
    /\ edits < MaxEdits
    /\ \E key \in {"widthCm", "heightCm"}, value \in DimValues :
           LET newBgDimensions == [bgDimensions EXCEPT ![key] = value]
               newMaxTop == newBgDimensions.heightCm - qrConfig.qrSizeCm
               newMaxRight == newBgDimensions.widthCm - qrConfig.qrSizeCm
           IN  /\ bgDimensions' = newBgDimensions
               /\ qrConfig' =
                      [qrConfig EXCEPT
                          !.marginTopCm = Min(@, IF newMaxTop < 0 THEN 0 ELSE newMaxTop),
                          !.marginRightCm = Min(@, IF newMaxRight < 0 THEN 0 ELSE newMaxRight)]
    /\ edits' = edits + 1
    /\ UNCHANGED <<pureVars, snapVars, bgSize, csvParsing, bgImage, links, isProcessing,
                   progress, lastToast, pc, i, tasks, zipFiles, zipImageCounts, z,
                   downloads, published, saved, addOrder>>

\* handleQrConfigChange(key, value), lines 187-189.
HandleQrConfigChange ==
    /\ edits < MaxEdits
    /\ \E key \in {"qrSizeCm", "marginTopCm", "marginRightCm"}, value \in QrValues :
           qrConfig' = [qrConfig EXCEPT ![key] = value]
    /\ edits' = edits + 1
    /\ UNCHANGED <<pureVars, snapVars, bgDimensions, bgSize, csvParsing, bgImage, links,
                   isProcessing, progress, lastToast, pc, i, tasks, zipFiles,
                   zipImageCounts, z, downloads, published, saved, addOrder>>

\* handleCsvChange with a file (lines 132-171), up to the start of Papa.parse.
\* The input is disabled without a background image; one parse at a time is
\* followed.
HandleCsvChange ==
    /\ edits < MaxEdits
    /\ bgImage # "none"
    /\ ~csvParsing
    /\ \E isCsv \in BOOLEAN :
           IF isCsv
           THEN /\ links' = <<>>
                /\ csvParsing' = TRUE
                /\ UNCHANGED lastToast
           ELSE /\ lastToast' = "Invalid File"
                /\ UNCHANGED <<links, csvParsing>>
    /\ edits' = edits + 1
    /\ UNCHANGED <<pureVars, snapVars, bgDimensions, qrConfig, bgSize, bgImage,
                   isProcessing, progress, pc, i, tasks, zipFiles, zipImageCounts, z,
                   downloads, published, saved, addOrder>>

\* Papa.parse calls complete (lines 142-163) or error (lines 164-167).
CsvParsed ==
    /\ csvParsing
    /\ csvParsing' = FALSE
    /\ \E result \in {"noColumn", "error", "rows"} :
           IF result = "rows"
           THEN \E parsedLinks \in CsvRowLists :
                    /\ links' = parsedLinks
                    /\ lastToast' = IF Len(parsedLinks) > 0 THEN "CSV Parsed"
                                    ELSE "No Links Found"
           ELSE /\ links' = <<>>
                /\ lastToast' = IF result = "noColumn" THEN "Invalid CSV"
                                ELSE "CSV Parsing Error"
    /\ UNCHANGED <<pureVars, snapVars, bgDimensions, qrConfig, bgSize, edits, bgImage,
                   isProcessing, progress, pc, i, tasks, zipFiles, zipImageCounts, z,
                   downloads, published, saved, addOrder>>

NextLayout ==
    \/ GenerateImages
    \/ BgImageLoaded
    \/ \E k \in 0..(BATCH_SIZE - 1) : TaskSettles(k)
    \/ PromiseAllRejects
    \/ BatchDone
    \/ FinalZipGenerated
    \/ HandleBgDimChange
    \/ HandleQrConfigChange
    \/ HandleCsvChange
    \/ CsvParsed

SpecLayout == InitLayout /\ [][NextLayout]_vars

(***************************************************************************)
(* Vocabulary of the layout properties.                                    *)
(***************************************************************************)
\* The QR rectangle fits the background: size plus margin does not exceed
\* the dimension, and no length is negative.
ValidLayout(dims, qr) ==
    /\ qr.qrSizeCm >= 0
    /\ qr.marginTopCm >= 0
    /\ qr.marginRightCm >= 0
    /\ qr.qrSizeCm + qr.marginRightCm <= dims.widthCm
    /\ qr.qrSizeCm + qr.marginTopCm <= dims.heightCm

\* The rectangle (pasteX, pasteY, qrSizePx, qrSizePx) lies in the content box
\* (offsetX, offsetY, drawWidth, drawHeight).
InsideContentBox(rect) ==
    /\ rect.pasteX >= rect.offsetX
    /\ rect.pasteY >= rect.offsetY
    /\ rect.pasteX + rect.qrSizePx <= rect.offsetX + rect.drawWidth
    /\ rect.pasteY + rect.qrSizePx <= rect.offsetY + rect.drawHeight

(***************************************************************************)
(* C21. Every image a run has drawn for a layout in which QR size plus     *)
(* each margin does not exceed the background dimension has its QR         *)
(* rectangle inside the content box of the scaled background, whatever the *)
(* aspect ratio of the bitmap. The code breaks it: the margins are taken   *)
(* in full canvas pixels from the edge of a content box that is smaller    *)
(* than the canvas when the bitmap is letterboxed or pillarboxed.          *)
(***************************************************************************)
C21_QrInsideContentBox ==
    \A d \in drawn :
        ValidLayout(d.layout[1], d.layout[2]) => InsideContentBox(d.rect)

(***************************************************************************)
(* C22. After any calls of handleBgDimChange and handleQrConfigChange from *)
(* the default configuration the layout keeps the QR rectangle within the  *)
(* background: qrSizeCm + marginRightCm <= widthCm, qrSizeCm + marginTopCm *)
(* <= heightCm, and both margins are at least 0. The code breaks it:       *)
(* handleQrConfigChange stores any value, and handleBgDimChange clamps the *)
(* margins only, to 0 at least, when the background is smaller than the QR *)
(* size.                                                                   *)
(***************************************************************************)
C22_LayoutStaysValid ==
    /\ qrConfig.marginTopCm >= 0
    /\ qrConfig.marginRightCm >= 0
    /\ qrConfig.qrSizeCm + qrConfig.marginRightCm <= bgDimensions.widthCm
    /\ qrConfig.qrSizeCm + qrConfig.marginTopCm <= bgDimensions.heightCm

(***************************************************************************)
(* C23. When the bitmap has the aspect ratio of the layout, the QR         *)
(* rectangle of every image drawn has whole pixel coordinates: its left    *)
(* edge is round(300 (widthCm - marginRightCm - qrSizeCm) / 2.54), its top *)
(* edge round(300 marginTopCm / 2.54) and its side                         *)
(* round(300 qrSizeCm / 2.54). The code breaks it for the left edge: it    *)
(* is offsetX + drawWidth less two lengths rounded on their own, and       *)
(* offsetX + drawWidth is a fraction when the rounded canvas has not the   *)
(* aspect ratio of the bitmap.                                             *)
(***************************************************************************)
SameAspect(dims, img) == img.width * dims.heightCm = img.height * dims.widthCm

C23_RoundedPixelRectangle ==
    \A d \in drawn :
        LET dims == d.layout[1]
            qr == d.layout[2]
        IN  SameAspect(dims, bgSize) =>
                /\ d.rect.pasteX =
                       CmToPx(dims.widthCm - qr.marginRightCm - qr.qrSizeCm) * d.rect.unit
                /\ d.rect.pasteY = CmToPx(qr.marginTopCm) * d.rect.unit
                /\ d.rect.qrSizePx = CmToPx(qr.qrSizeCm) * d.rect.unit

(***************************************************************************)
(* C24. A run whose QR size resolves to zero pixels or fewer is rejected   *)
(* before processing begins: it starts no row task, saves no row and       *)
(* downloads no archive. The code breaks it: generateImages checks bgImage *)
(* and links only, and runs with a qrSizePx of 0.                          *)
(***************************************************************************)
C24_NonPositiveSizeRejected ==
    (isProcessing /\ CmToPx(LayoutRead(closure).qrConfig.qrSizeCm) <= 0) =>
        /\ tasks = NoTasks
        /\ saved = {}
        /\ downloads = <<>>

(***************************************************************************)
(* C27. A run uses the rows and the layout that were current when it       *)
(* started. What the run closes over is taken when generateImages is       *)
(* invoked, from the state of that moment, and no later step changes it;   *)
(* every image is drawn for it and every entry is named after its rows,    *)
(* whatever handleBgDimChange, handleQrConfigChange and handleCsvChange    *)
(* have made of the state by then; so the images of one run share one      *)
(* layout.                                                                 *)
(***************************************************************************)
EntriesOf(zf) == UNION { zf[s].files : s \in DOMAIN zf }

C27_RunUsesLayoutAtStart ==
    [][ /\ closure' # closure =>
               /\ pc = "idle"
               /\ closure' = Closure(links, bgDimensions, qrConfig)
        /\ \A d \in drawn' \ drawn : d = Drawing(closure, bgSize)
        /\ \A e \in EntriesOf(zipFiles') \ EntriesOf(zipFiles) :
               /\ e.row < Len(closure.links)
               /\ e.name = EntryName(closure.links[e.row + 1], e.row)
        /\ Cardinality(drawn') <= 1
      ]_vars

\* A run is under way with a task that has drawn its image and one still
\* running, after handleBgDimChange and an upload have changed the state.
C27_Witness ==
    /\ pc = "batch"
    /\ tasks[0] = "running"
    /\ tasks[1] = "blob"
    /\ drawn # {}
    /\ bgDimensions # closure.bgDimensions
    /\ qrConfig # closure.qrConfig
    /\ links # closure.links

(***************************************************************************)
(* C25. The resolution of a file name is deterministic and idempotent: the *)
(* name resolved for a link and an index is the one any other resolution   *)
(* of the same link and index gives, and the name without its extension    *)
(* holds only characters of [a-zA-Z0-9_-], so that sanitizing it again     *)
(* leaves it unchanged.                                                    *)
(***************************************************************************)
BaseName(name) == SubSeq(name, 1, Len(name) - Len(JpgExtension))

C25_NameDeterministicIdempotent ==
    Named =>
        /\ nameOut = EntryName(nameLink, nameIndex)
        /\ \A k \in 1..Len(BaseName(nameOut)) : BaseName(nameOut)[k] \in SafeChars
        /\ Sanitize(BaseName(nameOut)) = BaseName(nameOut)

\* A name has been resolved from a value in which two characters were
\* replaced.
C25_Witness ==
    /\ nameLink = <<"?", "=", "+", "a", "+">>
    /\ nameOut = <<"_", "a", "_", ".", "j", "p", "g">>

=============================================================================
